---- MODULE Spec2Model ----
(***************************************************************************)
(* Model of scripts/preprocess.py: the preprocessing pipeline of the       *)
(* shopping-behaviour toolkit (load, clean, outlier handling, feature      *)
(* engineering, encoding).                                                 *)
(*                                                                         *)
(* A table (pandas DataFrame) is a record [cols, rows]; a row is a record  *)
(* [id, c] with id the index label and c a function from the column names  *)
(* to cells.  A cell is <<>> when the value is missing (NaN / None) and    *)
(* <<v>> otherwise.  Numeric values are integers counted in units of       *)
(* 1/Scale, so that medians, quartiles and the IQR bounds are exact.       *)
(* Categorical values are the ranks of the category labels in sorted       *)
(* order (1 is the smallest label), or strings where only equality is      *)
(* used.                                                                   *)
(***************************************************************************)
EXTENDS Integers, Sequences, FiniteSets, TLC

VARIABLES pc, df, df_out, args, raised, hist

vars == <<pc, df, df_out, args, raised, hist>>

\* ------------------------------------------------------------------ bounds

\* Rows of the tables given to clean_data.
MaxRowsClean == 3
\* Numeric values of the clean_data and outlier tables are 0..MaxVal.
MaxVal == 2
\* Category labels of the categorical columns are 1..NCat.
NCat == 2
\* Rows of the tables given to detect_and_handle_outliers.
MaxRows == 5
\* Rows of the tables given to feature_engineering.
MaxRowsEnrich == 2
\* Rows of the tables given to encode_categorical.
MaxRowsEncode == 3
\* Rows of the files given to preprocess_pipeline.
MaxRowsFile == 2

\* ------------------------------------------------------------ cells, rows

\* 64 units per 1: a median halves, a quartile quarters, threshold 1.5 halves,
\* and a column may be processed twice.
Scale == 4 * 4 * 4

NA == <<>>

Num(v) == <<v * Scale>>

SeqToSet(s) == {s[i] : i \in DOMAIN s}

\* df[col] as the sequence of its cells, in row order.
Column(rows, col) == [i \in DOMAIN rows |-> rows[i].c[col]]

\* Series.dropna() followed by the values: the non-missing values in row order.
dropna(cells) ==
    LET kept == SelectSeq(cells, LAMBDA x : x # NA)
    IN  [i \in DOMAIN kept |-> kept[i][1]]

Sorted(values) == SortSeq(values, LAMBDA a, b : a < b)

\* The members of a finite set of integers, ascending.
RECURSIVE Ascending(_)
Ascending(S) ==
    IF S = {} THEN <<>>
    ELSE LET m == CHOOSE x \in S : \A y \in S : x <= y
         IN  <<m>> \o Ascending(S \ {m})

\* Rows of a table with the index labels 1..n that read_csv gives.
MkRows(cells) == [i \in DOMAIN cells |-> [id |-> i, c |-> cells[i]]]

Ids(rows) == {rows[i].id : i \in DOMAIN rows}

\* The dtypes load_data declares: select_dtypes(np.number) and
\* select_dtypes(["object", "category"]) choose by them.
NumericCols ==
    {"Customer ID", "Age", "Purchase Amount (USD)", "Review Rating",
     "Previous Purchases"}

CategoryCols ==
    {"Gender", "Item Purchased", "Category", "Location", "Size", "Color",
     "Season", "Subscription Status", "Shipping Type", "Discount Applied",
     "Promo Code Used", "Payment Method", "Frequency of Purchases"}

\* ------------------------------------------------------------- clean_data

\* DataFrame.drop_duplicates(): the first of equal rows is kept (its index
\* label too); rows are compared on their values, missing equal to missing.
RECURSIVE drop_duplicates(_)
drop_duplicates(rows) ==
    IF rows = <<>> THEN <<>>
    ELSE LET n == Len(rows)
             init == drop_duplicates(SubSeq(rows, 1, n - 1))
         IN  IF \E i \in 1..(n - 1) : rows[i].c = rows[n].c
             THEN init
             ELSE Append(init, rows[n])

\* Series.median(): over the non-missing values; NaN when there are none.
median(cells) ==
    LET s == Sorted(dropna(cells))
        n == Len(s)
    IN  IF n = 0 THEN NA
        ELSE IF n % 2 = 1 THEN <<s[(n + 1) \div 2]>>
        ELSE <<(s[n \div 2] + s[n \div 2 + 1]) \div 2>>

\* Series.mode(): the most frequent non-missing values, sorted; empty when
\* every value is missing.
mode(cells) ==
    LET vals == dropna(cells)
        count(v) == Cardinality({i \in DOMAIN vals : vals[i] = v})
        best == {v \in SeqToSet(vals) : \A w \in SeqToSet(vals) : count(w) <= count(v)}
    IN  Ascending(best)

\* Series.fillna(value); fillna(NaN) changes nothing.
fillna(cell, value) == IF cell = NA THEN value ELSE cell

\* clean_data raises (KeyError from mode()[0]) exactly when a categorical
\* column has a missing value and no value at all.
clean_data_raises(t) ==
    LET rows == drop_duplicates(t.rows)
    IN  \E col \in t.cols \cap CategoryCols :
            /\ \E i \in DOMAIN rows : rows[i].c[col] = NA
            /\ mode(Column(rows, col)) = <<>>

\* The table clean_data returns when it does not raise.
clean_data(t) ==
    LET rows == drop_duplicates(t.rows)
        fill(col) ==
            IF col \in NumericCols THEN median(Column(rows, col))
            ELSE IF col \in CategoryCols /\ mode(Column(rows, col)) # <<>>
                 THEN <<mode(Column(rows, col))[1]>>
                 ELSE NA
    IN  [cols |-> t.cols,
         rows |-> [i \in DOMAIN rows |->
                    [id |-> rows[i].id,
                     c  |-> [col \in t.cols |-> fillna(rows[i].c[col], fill(col))]]]]

\* The tables given to clean_data: a numeric column that can hold NaN
\* (float32) and a categorical one.
CleanCols == {"Review Rating", "Gender"}

CleanRowCells ==
    {f \in [CleanCols -> {NA} \cup {Num(v) : v \in 0..MaxVal} \cup {<<g>> : g \in 1..NCat}] :
        /\ f["Review Rating"] \in {NA} \cup {Num(v) : v \in 0..MaxVal}
        /\ f["Gender"] \in {NA} \cup {<<g>> : g \in 1..NCat}}

InitClean ==
    /\ pc = "start"
    /\ \E n \in 0..MaxRowsClean : \E cells \in [1..n -> CleanRowCells] :
          df = [cols |-> CleanCols, rows |-> MkRows(cells)]
    /\ df_out = df
    /\ args = <<>>
    /\ raised = "none"
    /\ hist = <<>>

\* df = clean_data(df), a first time and then on its own result.
CallCleanData ==
    /\ pc \in {"start", "cleaned"}
    /\ IF clean_data_raises(df_out)
       THEN /\ pc' = "raised"
            /\ raised' = "KeyError"
            /\ UNCHANGED <<df_out, hist>>
       ELSE /\ pc' = IF pc = "start" THEN "cleaned" ELSE "recleaned"
            /\ df_out' = clean_data(df_out)
            /\ hist' = Append(hist, df_out)
            /\ UNCHANGED raised
    /\ UNCHANGED <<df, args>>

NextClean == CallCleanData

SpecClean == InitClean /\ [][NextClean]_vars

NoDuplicateRows(t) ==
    \A i, j \in DOMAIN t.rows : i # j => t.rows[i].c # t.rows[j].c

NoMissing(t) ==
    \A i \in DOMAIN t.rows : \A col \in t.cols : t.rows[i].c[col] # NA

AllMissing(t, col) ==
    /\ t.rows # <<>>
    /\ \A i \in DOMAIN t.rows : t.rows[i].c[col] = NA

\* C1: the table clean_data returns holds no two rows equal in every column
\* and no missing value in any column.
C1_CleanedNoDuplicateNoMissing ==
    pc = "cleaned" => NoDuplicateRows(df_out) /\ NoMissing(df_out)

\* The part of C1 about duplicates alone, on inputs where every column has a
\* value (so that no column stays missing): filling can make two rows equal.
C1_CleanedNoDuplicate ==
    (pc = "cleaned" /\ \A col \in df.cols : ~AllMissing(df, col))
        => NoDuplicateRows(df_out)

\* C4: clean_data(clean_data(T)) is identical to clean_data(T): the second run
\* removes no row and fills no value.
C4_CleanIdempotent ==
    pc = "recleaned" => df_out = hist[2]

\* C9: when a column of the input is entirely missing, categorical or
\* numeric, clean_data raises an error and returns no table.
C9_AllMissingColumnRaises ==
    (\E col \in df.cols : AllMissing(df, col)) => pc \notin {"cleaned", "recleaned"}

\* The categorical half of C9: an entirely missing categorical column makes
\* clean_data raise.
C9_AllMissingCategoricalRaises ==
    (\E col \in df.cols \cap CategoryCols : AllMissing(df, col))
        => pc \notin {"cleaned", "recleaned"}

\* ---------------------------------------------- detect_and_handle_outliers

\* Series.quantile(q4 / 4) of a sorted, non-empty series: linear
\* interpolation at position (n - 1) * q4 / 4.
quantile(s, q4) ==
    LET h  == (Len(s) - 1) * q4
        lo == h \div 4 + 1
        fr == h % 4
    IN  IF fr = 0 THEN s[lo] ELSE s[lo] + (fr * (s[lo + 1] - s[lo])) \div 4

\* The bounds taken one IQR from the quartiles, whatever the threshold.
iqr_bounds_without_threshold(rows, col, threshold) ==
    LET s == Sorted(dropna(Column(rows, col)))
    IN  IF s = <<>>
        THEN [Q1 |-> NA, Q3 |-> NA, IQR |-> NA, lower |-> NA, upper |-> NA]
        ELSE LET Q1  == quantile(s, 1)
                 Q3  == quantile(s, 3)
                 IQR == Q3 - Q1
             IN  [Q1 |-> <<Q1>>, Q3 |-> <<Q3>>, IQR |-> <<IQR>>,
                  lower |-> <<Q1 - IQR>>, upper |-> <<Q3 + IQR>>]

\* Q1, Q3, IQR, lower and upper of one column; every one NaN on a column
\* without values.  threshold is the fraction num / den.
iqr_bounds(rows, col, threshold) ==
    LET s == Sorted(dropna(Column(rows, col)))
    IN  IF s = <<>>
        THEN [Q1 |-> NA, Q3 |-> NA, IQR |-> NA, lower |-> NA, upper |-> NA]
        ELSE LET Q1  == quantile(s, 1)
                 Q3  == quantile(s, 3)
                 IQR == Q3 - Q1
             IN  [Q1 |-> <<Q1>>, Q3 |-> <<Q3>>, IQR |-> <<IQR>>,
                  lower |-> <<Q1 - (threshold.num * IQR) \div threshold.den>>,
                  upper |-> <<Q3 + (threshold.num * IQR) \div threshold.den>>]

\* A comparison with NaN on either side is False.
Less(cell, bound) == cell # NA /\ bound # NA /\ cell[1] < bound[1]

Greater(cell, bound) == cell # NA /\ bound # NA /\ cell[1] > bound[1]

\* The mask with <= and >= in place of < and >.
outlier_mask_inclusive(rows, col, b) ==
    {rows[i].id : i \in {j \in DOMAIN rows :
        \/ rows[j].c[col] # NA /\ b.lower # NA /\ rows[j].c[col][1] <= b.lower[1]
        \/ rows[j].c[col] # NA /\ b.upper # NA /\ rows[j].c[col][1] >= b.upper[1]}}

\* mask = (series < lower) | (series > upper), as the index labels it marks;
\* series holds the rows whose value is not missing.
outlier_mask(rows, col, b) ==
    {rows[i].id : i \in {j \in DOMAIN rows :
        Less(rows[j].c[col], b.lower) \/ Greater(rows[j].c[col], b.upper)}}

\* df_out.loc[df_out[col] < lower, col] = lower, then the same with upper.
cap(rows, col, b) ==
    LET low == [i \in DOMAIN rows |->
                    IF Less(rows[i].c[col], b.lower)
                    THEN [rows[i] EXCEPT !.c[col] = b.lower]
                    ELSE rows[i]]
    IN  [i \in DOMAIN low |->
            IF Greater(low[i].c[col], b.upper)
            THEN [low[i] EXCEPT !.c[col] = b.upper]
            ELSE low[i]]

\* df_out[~mask] raises IndexingError (unalignable boolean Series) when
\* df_out has an index label mask lacks: a row dropna() left out.
remove_raises(rows, col) == \E i \in DOMAIN rows : rows[i].c[col] = NA

\* df_out[~mask]
remove(rows, mask) == SelectSeq(rows, LAMBDA r : r.id \notin mask)

\* One pass of the loop over columns: what it computed and the rows after it.
handle_column(rows, col, a) ==
    LET b    == iqr_bounds(rows, col, a.threshold)
        mask == outlier_mask(rows, col, b)
        none == [col |-> col, bounds |-> b, mask |-> {}, before |-> rows,
                 after |-> rows, raises |-> FALSE]
    IN  IF a.method # "iqr" \/ mask = {} THEN none
        ELSE IF a.action = "cap"
             THEN [none EXCEPT !.mask = mask, !.after = cap(rows, col, b)]
        ELSE IF a.action = "remove"
             THEN IF remove_raises(rows, col)
                  THEN [none EXCEPT !.mask = mask, !.raises = TRUE]
                  ELSE [none EXCEPT !.mask = mask, !.after = remove(rows, mask)]
        ELSE [none EXCEPT !.mask = mask]

\* The loop over columns: a column the table lacks is skipped; the call ends
\* at the first pass that raises.
RECURSIVE outlier_loop(_, _, _)
outlier_loop(t, a, i) ==
    IF i > Len(a.columns) THEN [df |-> t, raises |-> FALSE]
    ELSE IF a.columns[i] \notin t.cols THEN outlier_loop(t, a, i + 1)
    ELSE LET step == handle_column(t.rows, a.columns[i], a)
         IN  IF step.raises THEN [df |-> t, raises |-> TRUE]
             ELSE outlier_loop([t EXCEPT !.rows = step.after], a, i + 1)

detect_and_handle_outliers(t, a) == outlier_loop(t, a, 1)

\* The default threshold, 1.5.
DefaultThreshold == [num |-> 3, den |-> 2]

\* A multiplier large enough for values in 0..MaxVal: the smallest IQR above
\* 0 is a quarter.
BigK == [num |-> 4 * MaxVal, den |-> 1]

\* The tables given to detect_and_handle_outliers: two numeric columns, one
\* that may hold missing values.  The function sorts each column and treats
\* rows one by one, so tables are taken up to the order of their rows.
OutlierCols == {"Review Rating", "Previous Purchases"}

OutlierKinds ==
    [i \in 1..(2 * (MaxVal + 2)) |->
        [c \in OutlierCols |->
            IF c = "Review Rating"
            THEN IF (i - 1) \div 2 = 0 THEN NA ELSE Num((i - 1) \div 2 - 1)
            ELSE IF (i - 1) % 2 = 0 THEN Num(0) ELSE Num(MaxVal)]]

RECURSIVE NonDecreasing(_, _, _)
NonDecreasing(n, lo, hi) ==
    IF n = 0 THEN {<<>>}
    ELSE UNION {{<<k>> \o s : s \in NonDecreasing(n - 1, k, hi)} : k \in lo..hi}

\* The column lists: a column twice, both columns in either order, and a
\* name the table does not have.
OutlierColumnLists ==
    {<<"Review Rating", "Review Rating">>,
     <<"Review Rating", "Previous Purchases">>,
     <<"Bonus", "Previous Purchases", "Review Rating">>}

\* method, threshold and action of a call; only "iqr" is implemented.
OutlierOptions ==
    [method : {"iqr"}, threshold : {DefaultThreshold, BigK}, action : {"cap", "remove"}]
        \cup [method : {"zscore"}, threshold : {DefaultThreshold}, action : {"cap", "remove"}]

InitOutlier ==
    /\ pc = "loop"
    /\ \E n \in 0..MaxRows : \E ks \in NonDecreasing(n, 1, Len(OutlierKinds)) :
          df = [cols |-> OutlierCols,
                rows |-> MkRows([i \in DOMAIN ks |-> OutlierKinds[ks[i]]])]
    /\ df_out = df
    /\ args \in {[columns |-> cl] @@ o : cl \in OutlierColumnLists, o \in OutlierOptions}
    /\ raised = "none"
    /\ hist = <<>>

\* for col in columns: one pass, on the next column of the list.
HandleColumn ==
    /\ pc = "loop"
    /\ Len(hist) < Len(args.columns)
    /\ LET col == args.columns[Len(hist) + 1]
       IN  IF col \notin df_out.cols
           THEN /\ hist' = Append(hist, [col |-> col, skipped |-> TRUE])
                /\ UNCHANGED <<pc, df_out, raised>>
           ELSE LET step == handle_column(df_out.rows, col, args)
                IN  /\ hist' = Append(hist, [step EXCEPT !.col = col] @@ [skipped |-> FALSE])
                    /\ IF step.raises
                       THEN /\ pc' = "raised"
                            /\ raised' = "IndexingError"
                            /\ UNCHANGED df_out
                       ELSE /\ df_out' = [df_out EXCEPT !.rows = step.after]
                            /\ UNCHANGED <<pc, raised>>
    /\ UNCHANGED <<df, args>>

\* return df_out
ReturnOutliers ==
    /\ pc = "loop"
    /\ Len(hist) = Len(args.columns)
    /\ pc' = "returned"
    /\ UNCHANGED <<df, df_out, args, raised, hist>>

NextOutlier == HandleColumn \/ ReturnOutliers

SpecOutlier == InitOutlier /\ [][NextOutlier]_vars

Steps == {i \in DOMAIN hist : ~hist[i].skipped}

\* The value in col lies outside [Q1 - k*IQR, Q3 + k*IQR], the quartiles taken
\* over the non-missing values of col in rows; k = threshold.num / threshold.den.
Outside(cell, rows, col, threshold) ==
    LET s  == Sorted(dropna(Column(rows, col)))
        Q1 == quantile(s, 1)
        Q3 == quantile(s, 3)
    IN  /\ cell # NA
        /\ \/ threshold.den * cell[1] < threshold.den * Q1 - threshold.num * (Q3 - Q1)
           \/ threshold.den * cell[1] > threshold.den * Q3 + threshold.num * (Q3 - Q1)

OutsideIds(rows, col, threshold) ==
    {rows[i].id : i \in {j \in DOMAIN rows : Outside(rows[j].c[col], rows, col, threshold)}}

\* Each pass starts from the rows the pass before it left.
StepsChained ==
    /\ \A i \in Steps :
          hist[i].before = IF \E j \in Steps : j < i
                           THEN hist[CHOOSE j \in Steps : j < i /\ \A k \in Steps : k < i => k <= j].after
                           ELSE df.rows
    /\ pc = "returned" /\ Steps # {} =>
          df_out.rows = hist[CHOOSE j \in Steps : \A k \in Steps : k <= j].after

\* The passes taken one by one give what the whole loop gives.
StepwiseAgreesWithLoop ==
    /\ pc = "returned" =>
          /\ ~detect_and_handle_outliers(df, args).raises
          /\ df_out = detect_and_handle_outliers(df, args).df
    /\ pc = "raised" => detect_and_handle_outliers(df, args).raises

C5_LargeThresholdNoOp ==
    (pc = "returned" /\ args.method = "iqr" /\ args.threshold = BigK) => df_out = df

\* C5 amended: with a large multiplier a pass over a column whose IQR is above
\* 0 (or that has no value) flags nothing and leaves the table as it is, under
\* both actions; on a column whose IQR is 0 the bounds are [Q1, Q1] whatever
\* the multiplier, and the values that differ from Q1 are exactly the ones
\* flagged as outliers.
C5_LargeThresholdNoOpUnlessIQRZero ==
    (args.method = "iqr" /\ args.threshold = BigK) =>
        \A i \in Steps :
            LET st == hist[i]
                vals == {st.before[r].c[st.col] : r \in DOMAIN st.before} \ {NA}
            IN  /\ (st.bounds.IQR = NA \/ st.bounds.IQR[1] > 0) =>
                      /\ st.mask = {}
                      /\ st.after = st.before
                      /\ ~st.raises
                /\ (st.bounds.IQR # NA /\ st.bounds.IQR[1] = 0) =>
                      /\ st.bounds.lower = st.bounds.Q1
                      /\ st.bounds.upper = st.bounds.Q1
                      /\ st.mask = {st.before[r].id : r \in
                            {q \in DOMAIN st.before :
                                st.before[q].c[st.col] \notin {NA, st.bounds.Q1}}}

\* C5's case: a call with the large multiplier returned after a pass over a
\* column with IQR above 0 that spans the whole value range, and a pass over
\* a column with IQR 0 that flagged a value.
C5_Witness ==
    /\ pc = "returned"
    /\ args.method = "iqr"
    /\ args.threshold = BigK
    /\ \E i \in Steps :
          /\ hist[i].bounds.IQR # NA
          /\ hist[i].bounds.IQR[1] > 0
          /\ {Num(0), Num(MaxVal)} \subseteq
                {hist[i].before[r].c[hist[i].col] : r \in DOMAIN hist[i].before}
    /\ \E i \in Steps :
          /\ hist[i].bounds.IQR = <<0>>
          /\ hist[i].mask # {}

\* ----------------------------------------------------- feature_engineering

AgeBins == <<0, 18, 25, 35, 45, 55, 65, 100>>

AgeLabels == <<"<18", "18-24", "25-34", "35-44", "45-54", "55-64", "65+">>

\* The finite edges of bins = [-inf, 30, 50, 75, 100, inf].
PurchaseEdges == <<30, 50, 75, 100>>

PurchaseLabels == <<"Very Low", "Low", "Medium", "High", "Very High">>

\* pd.cut(x, bins, right=False): the bin [bins[k], bins[k+1]) that holds x,
\* found as the number of edges <= x; 0 (no bin, NaN) for a missing x, an x
\* below the first edge and an x at or above the last edge.
cut_left_closed(cell, bins) ==
    IF cell = NA THEN 0
    ELSE LET k == Cardinality({i \in DOMAIN bins : bins[i] * Scale <= cell[1]})
         IN  IF k = Len(bins) THEN 0 ELSE k

\* pd.cut(x, [-inf, e1, .., en, inf]) with the default right=True: the bin
\* (e[k-1], e[k]] that holds x, found as one more than the edges < x.
cut_right_closed(cell, edges) ==
    IF cell = NA THEN 0
    ELSE 1 + Cardinality({i \in DOMAIN edges : edges[i] * Scale < cell[1]})

Label(k, labels) == IF k = 0 THEN NA ELSE <<labels[k]>>

\* Series.astype(str): a missing value reads "nan".
astype_str(cell) == IF cell = NA THEN "nan" ELSE cell[1]

\* 1. Age_Group and Age_Group_Ordinal (cat.codes: -1 for no bin).
derive_age_group(cols, c) ==
    IF "Age" \in cols
    THEN LET k == cut_left_closed(c["Age"], AgeBins)
         IN  ("Age_Group" :> Label(k, AgeLabels)) @@ ("Age_Group_Ordinal" :> <<k - 1>>)
    ELSE <<>>

\* 2. Purchase_Category
derive_purchase_category(cols, c) ==
    IF "Purchase Amount (USD)" \in cols
    THEN "Purchase_Category" :>
            Label(cut_right_closed(c["Purchase Amount (USD)"], PurchaseEdges), PurchaseLabels)
    ELSE <<>>

\* 3. Discount_or_Promo
derive_discount_or_promo(cols, c) ==
    IF \A col \in {"Discount Applied", "Promo Code Used"} : col \in cols
    THEN "Discount_or_Promo" :>
            IF c["Discount Applied"] = <<"Yes">> \/ c["Promo Code Used"] = <<"Yes">>
            THEN <<"Yes">> ELSE <<"No">>
    ELSE <<>>

\* The flag written over its source column instead of beside it.
derive_is_repeat_customer_inplace(cols, c) ==
    IF "Previous Purchases" \in cols
    THEN "Previous Purchases" :>
            IF ~Less(c["Previous Purchases"], Num(10)) /\ c["Previous Purchases"] # NA
            THEN <<1>> ELSE <<0>>
    ELSE <<>>

\* 4. Is_Repeat_Customer; a missing count compares False.
derive_is_repeat_customer(cols, c) ==
    IF "Previous Purchases" \in cols
    THEN "Is_Repeat_Customer" :>
            IF ~Less(c["Previous Purchases"], Num(10)) /\ c["Previous Purchases"] # NA
            THEN <<1>> ELSE <<0>>
    ELSE <<>>

\* 5. Season_Category: the two strings around "_".
derive_season_category(cols, c) ==
    IF \A col \in {"Season", "Category"} : col \in cols
    THEN "Season_Category" :> <<<<astype_str(c["Season"]), "_", astype_str(c["Category"])>>>>
    ELSE <<>>

\* df[name] = ... for every derivation: a column of that name is replaced.
derive(cols, c) ==
    derive_season_category(cols, c) @@ derive_is_repeat_customer(cols, c)
        @@ derive_discount_or_promo(cols, c) @@ derive_purchase_category(cols, c)
        @@ derive_age_group(cols, c)

feature_engineering(t) ==
    LET new(c) == derive(t.cols, c) @@ c
    IN  [cols |-> t.cols \cup DOMAIN derive(t.cols, [col \in t.cols |-> NA]),
         rows |-> [i \in DOMAIN t.rows |-> [id |-> t.rows[i].id, c |-> new(t.rows[i].c)]]]

DerivedCols ==
    {"Age_Group", "Age_Group_Ordinal", "Purchase_Category", "Discount_or_Promo",
     "Is_Repeat_Customer", "Season_Category"}

\* The largest value of an int8 column such as Age.
Int8Max == 127

\* The values a source column takes in the tables given to feature_engineering.
EnrichValues(col) ==
    CASE col = "Age" -> {Num(40)}
      [] col = "Purchase Amount (USD)" -> {Num(30), Num(101)}
      [] col = "Discount Applied" -> {<<"Yes">>, <<"No">>}
      [] col = "Promo Code Used" -> {<<"Yes">>, <<"No">>}
      [] col = "Previous Purchases" -> {Num(9), Num(10)}
      [] col = "Season" -> {<<"Winter">>}
      [] col = "Category" -> {<<"Clothing">>}

EnrichSourceCols ==
    {"Age", "Purchase Amount (USD)", "Discount Applied", "Promo Code Used",
     "Previous Purchases", "Season", "Category"}

\* A table of the Record Table schema: Customer ID and the chosen columns.
EnrichTable(cols, cells) ==
    [cols |-> cols \cup {"Customer ID"},
     rows |-> [i \in DOMAIN cells |->
                [id |-> i, c |-> cells[i] @@ ("Customer ID" :> <<i>>)]]]

\* The rows over cols, each column with one of its values.
RECURSIVE EnrichRows(_)
EnrichRows(cols) ==
    IF cols = {} THEN {<<>>}
    ELSE LET col == CHOOSE x \in cols : TRUE
         IN  {(col :> v) @@ f : v \in EnrichValues(col), f \in EnrichRows(cols \ {col})}

\* Every subset of the source columns with a few values per column, and
\* every Age of an int8 column (and a missing one) in a one-row table.
InitEnrich ==
    /\ pc = "start"
    /\ \/ \E cols \in SUBSET EnrichSourceCols : \E n \in 1..MaxRowsEnrich :
             \E cells \in [1..n -> EnrichRows(cols)] : df = EnrichTable(cols, cells)
       \/ \E a \in {NA} \cup {Num(v) : v \in (-1)..Int8Max} :
             df = EnrichTable({"Age"}, <<"Age" :> a>>)
    /\ df_out = df
    /\ args = <<>>
    /\ raised = "none"
    /\ hist = <<>>

\* df = feature_engineering(df)
CallFeatureEngineering ==
    /\ pc = "start"
    /\ pc' = "enriched"
    /\ df_out' = feature_engineering(df)
    /\ UNCHANGED <<df, args, raised, hist>>

NextEnrich == CallFeatureEngineering

SpecEnrich == InitEnrich /\ [][NextEnrich]_vars

\* The label C3 gives an integer age in [0, 100]: left-closed, right-open
\* bins, the last one, [65, 100], closed on both ends.
AgeLabelClaimed(a) ==
    CASE a < 18 -> "<18"
      [] a >= 18 /\ a < 25 -> "18-24"
      [] a >= 25 /\ a < 35 -> "25-34"
      [] a >= 35 /\ a < 45 -> "35-44"
      [] a >= 45 /\ a < 55 -> "45-54"
      [] a >= 55 /\ a < 65 -> "55-64"
      [] a >= 65 -> "65+"

\* C3: every integer Age in [0, 100], both endpoints included, gets exactly
\* one of the seven labels as Age_Group, never a missing label.
C3_AgeGroupCoversZeroToHundred ==
    (pc = "enriched" /\ "Age" \in df.cols) =>
        \A i \in DOMAIN df.rows :
            \A a \in 0..100 :
                df.rows[i].c["Age"] = Num(a) =>
                    df_out.rows[i].c["Age_Group"] = <<AgeLabelClaimed(a)>>

\* What the code does give: the labels of C3 for the ages in [0, 99].
C3_AgeGroupCoversZeroToNinetyNine ==
    (pc = "enriched" /\ "Age" \in df.cols) =>
        \A i \in DOMAIN df.rows :
            \A a \in 0..99 :
                df.rows[i].c["Age"] = Num(a) =>
                    df_out.rows[i].c["Age_Group"] = <<AgeLabelClaimed(a)>>

\* The source columns each derived column needs.
DerivedFrom(col) ==
    CASE col \in {"Age_Group", "Age_Group_Ordinal"} -> {"Age"}
      [] col = "Purchase_Category" -> {"Purchase Amount (USD)"}
      [] col = "Discount_or_Promo" -> {"Discount Applied", "Promo Code Used"}
      [] col = "Is_Repeat_Customer" -> {"Previous Purchases"}
      [] col = "Season_Category" -> {"Season", "Category"}

\* C7: feature_engineering is purely additive.  Every input column is in the
\* output with the same value in every row, the rows are the same in number
\* and order, every other output column is a derived one, and a derived
\* column is there exactly when all of its source columns are in the input.
C7_EnrichPurelyAdditive ==
    pc = "enriched" =>
        /\ raised = "none"
        /\ df.cols \subseteq df_out.cols
        /\ Len(df_out.rows) = Len(df.rows)
        /\ \A i \in DOMAIN df.rows :
              /\ df_out.rows[i].id = df.rows[i].id
              /\ DOMAIN df_out.rows[i].c = df_out.cols
              /\ \A col \in df.cols : df_out.rows[i].c[col] = df.rows[i].c[col]
        /\ df_out.cols \ df.cols \subseteq DerivedCols
        /\ \A col \in DerivedCols :
              col \in df_out.cols <=> DerivedFrom(col) \subseteq df.cols

\* C7's case: a table of two rows that has one source column of a
\* two-column derivation but not the other; that derivation was skipped and
\* the others ran.
C7_Witness ==
    /\ pc = "enriched"
    /\ Len(df.rows) = 2
    /\ "Discount Applied" \in df.cols
    /\ "Promo Code Used" \notin df.cols
    /\ "Age" \notin df.cols
    /\ "Discount_or_Promo" \notin df_out.cols
    /\ "Is_Repeat_Customer" \in df_out.cols
    /\ "Purchase_Category" \in df_out.cols
    /\ df_out.rows[1].c["Is_Repeat_Customer"] # df_out.rows[2].c["Is_Repeat_Customer"]

\* ------------------------------------------------------ encode_categorical

\* The categories an encoder finds at fit time: the distinct values, sorted.
categories(rows, col) == Ascending({rows[i].c[col][1] : i \in DOMAIN rows})

IndexOf(s, v) == CHOOSE i \in DOMAIN s : s[i] = v

\* LabelEncoder().fit_transform: each value becomes the 0-based position of
\* its category among the sorted categories.
label_encode(rows, col) ==
    LET classes == categories(rows, col)
    IN  [i \in DOMAIN rows |->
            [rows[i] EXCEPT !.c[col] = <<IndexOf(classes, rows[i].c[col][1]) - 1>>]]

\* The label-encoding loop: a listed column the table lacks is skipped.
RECURSIVE label_loop(_, _, _)
label_loop(t, cols_label, i) ==
    IF i > Len(cols_label) THEN t
    ELSE IF cols_label[i] \in t.cols
         THEN label_loop([t EXCEPT !.rows = label_encode(t.rows, cols_label[i])],
                         cols_label, i + 1)
         ELSE label_loop(t, cols_label, i + 1)

\* The last category dropped instead of the first.
kept_categories_drop_last(cats, drop_first) ==
    IF drop_first THEN SubSeq(cats, 1, Len(cats) - 1) ELSE cats

\* The categories that get an indicator column: with drop="first" every one
\* but the first.
kept_categories(cats, drop_first) ==
    IF drop_first THEN SubSeq(cats, 2, Len(cats)) ELSE cats

\* ohe.get_feature_names_out: <<col, category>> reads "col_category".
feature_names(rows, cols_onehot, drop_first) ==
    UNION {{<<cols_onehot[k], cat>> :
                cat \in SeqToSet(kept_categories(categories(rows, cols_onehot[k]), drop_first))} :
           k \in DOMAIN cols_onehot}

\* ohe.fit_transform: the indicator of <<col, category>> is 1 in the rows
\* whose value in col is that category.
onehot_rows(rows, cols_onehot, drop_first) ==
    [i \in DOMAIN rows |->
        [id |-> rows[i].id,
         c  |-> [f \in feature_names(rows, cols_onehot, drop_first) |->
                    IF rows[i].c[f[1]] = <<f[2]>> THEN 1 ELSE 0]]]

\* df_enc[cols_onehot] raises KeyError when a listed column is not there.
encode_categorical_raises(t, a) ==
    /\ a.cols_onehot # <<>>
    /\ \E k \in DOMAIN a.cols_onehot : a.cols_onehot[k] \notin t.cols

\* The table encode_categorical returns when it does not raise, as the two
\* blocks pd.concat puts side by side: the columns left after
\* drop(columns=cols_onehot), and the indicator columns.
encode_categorical(t, a) ==
    LET labelled == IF a.cols_label # <<>> THEN label_loop(t, a.cols_label, 1) ELSE t
        rest     == labelled.cols \ SeqToSet(a.cols_onehot)
    IN  [cols   |-> rest,
         rows   |-> [i \in DOMAIN labelled.rows |->
                       [id |-> labelled.rows[i].id,
                        c  |-> [col \in rest |-> labelled.rows[i].c[col]]]],
         onehot |-> IF a.cols_onehot # <<>>
                    THEN onehot_rows(labelled.rows, a.cols_onehot, a.drop_first)
                    ELSE [i \in DOMAIN labelled.rows |-> [id |-> labelled.rows[i].id, c |-> <<>>]]]

\* None or an empty list is <<>>.
EncodeOptions ==
    [cols_onehot : {<<>>, <<"Gender">>, <<"Size">>, <<"Gender", "Size">>},
     cols_label  : {<<>>, <<"Gender">>, <<"Size">>, <<"Size", "Gender">>},
     drop_first  : BOOLEAN]

\* The tables given to encode_categorical: Gender alone, or Gender and Size,
\* every value present.
InitEncode ==
    /\ pc = "start"
    /\ \E cols \in {{"Gender"}, {"Gender", "Size"}} : \E n \in 1..MaxRowsEncode :
          \E cells \in [1..n -> [cols -> {<<g>> : g \in 1..NCat}]] :
             df = [cols |-> cols, rows |-> MkRows(cells)]
    /\ df_out = df
    /\ args \in EncodeOptions
    /\ raised = "none"
    /\ hist = <<>>

\* df_enc, encoders = encode_categorical(df, cols_onehot, cols_label, drop_first)
CallEncodeCategorical ==
    /\ pc = "start"
    /\ IF encode_categorical_raises(df, args)
       THEN /\ pc' = "raised"
            /\ raised' = "KeyError"
            /\ UNCHANGED df_out
       ELSE /\ pc' = "encoded"
            /\ df_out' = encode_categorical(df, args)
            /\ UNCHANGED raised
    /\ UNCHANGED <<df, args, hist>>

NextEncode == CallEncodeCategorical

SpecEncode == InitEncode /\ [][NextEncode]_vars

\* The value of col the one-hot encoder was fitted on: the category, or its
\* label code when col was label-encoded first.
EncoderInput(col, i) ==
    IF col \in SeqToSet(args.cols_label) /\ col \in df.cols
    THEN label_encode(df.rows, col)[i].c[col][1]
    ELSE df.rows[i].c[col][1]

\* The categories of col whose indicator is 1 in row i of the output.
Decoded(col, i) ==
    {f[2] : f \in {g \in DOMAIN df_out.onehot[i].c :
                        g[1] = col /\ df_out.onehot[i].c[g] = 1}}

\* C6 as stated: for every one-hot column and every row, the indicator equal
\* to 1 gives back the row's category, with drop_first = TRUE (the default)
\* as with drop_first = FALSE.
C6_OneHotRoundTrip ==
    pc = "encoded" =>
        \A k \in DOMAIN args.cols_onehot : \A i \in DOMAIN df.rows :
            Decoded(args.cols_onehot[k], i) = {EncoderInput(args.cols_onehot[k], i)}

\* C6 amended: with drop_first = FALSE the indicator equal to 1 gives back the
\* category of every row; with drop_first = TRUE it does so for every row
\* whose category is not the first (smallest) one of its column, and a row of
\* the first category has no indicator of that column equal to 1.
C6_OneHotRoundTripButDroppedFirst ==
    pc = "encoded" =>
        \A k \in DOMAIN args.cols_onehot : \A i \in DOMAIN df.rows :
            LET col   == args.cols_onehot[k]
                v     == EncoderInput(col, i)
                first == \A j \in DOMAIN df.rows : v <= EncoderInput(col, j)
            IN  IF args.drop_first /\ first
                THEN Decoded(col, i) = {}
                ELSE Decoded(col, i) = {v}

\* C6's case: the default drop_first, a one-hot column with two categories
\* in the table, a row of the first one and a row of another one.
C6_Witness ==
    /\ pc = "encoded"
    /\ args.drop_first
    /\ args.cols_label = <<>>
    /\ \E k \in DOMAIN args.cols_onehot : \E i, j \in DOMAIN df.rows :
          /\ df.rows[i].c[args.cols_onehot[k]] = <<1>>
          /\ df.rows[j].c[args.cols_onehot[k]] = <<2>>
          /\ Decoded(args.cols_onehot[k], i) = {}
          /\ Decoded(args.cols_onehot[k], j) = {2}

\* The columns of a list that the table has.
Present(cols) == {cols[k] : k \in {j \in DOMAIN cols : cols[j] \in df.cols}}

\* C8: a cols_label or cols_onehot list that names a column the table lacks
\* raises no error; the absent column is skipped and the present ones are
\* encoded.
C8_AbsentColumnsSkipped ==
    /\ raised = "none"
    /\ pc = "encoded" =>
          /\ \A col \in Present(args.cols_onehot) :
                col \notin df_out.cols /\ \A i \in DOMAIN df.rows : Decoded(col, i) \subseteq {EncoderInput(col, i)}
          /\ \A col \in Present(args.cols_label) \ SeqToSet(args.cols_onehot) :
                \A i \in DOMAIN df.rows : df_out.rows[i].c[col] = <<EncoderInput(col, i)>>

\* The label half of C8: when every cols_onehot column is there, a
\* cols_label column the table lacks is skipped without an error.
C8_AbsentLabelColumnsSkipped ==
    (\A k \in DOMAIN args.cols_onehot : args.cols_onehot[k] \in df.cols) =>
        /\ raised = "none"
        /\ pc = "encoded" =>
              \A col \in Present(args.cols_label) \ SeqToSet(args.cols_onehot) :
                  \A i \in DOMAIN df.rows : df_out.rows[i].c[col] = <<EncoderInput(col, i)>>

\* ----------------------------------------------------- preprocess_pipeline

\* The columns load_data reads with an integer dtype: read_csv raises on a
\* missing value in one of them.
IntegerCols == {"Customer ID", "Age", "Purchase Amount (USD)", "Previous Purchases"}

\* load_data raises FileNotFoundError on a path without a file, and whatever
\* read_csv raises on a file it cannot read with the declared dtypes.
load_data_raises(file) ==
    IF file = <<>> THEN "FileNotFoundError"
    ELSE IF \E col \in file[1].cols \cap IntegerCols :
                \E i \in DOMAIN file[1].rows : file[1].rows[i].c[col] = NA
         THEN "ValueError"
         ELSE "none"

load_data(file) == file[1]

numeric_to_check ==
    <<"Purchase Amount (USD)", "Previous Purchases", "Age", "Review Rating">>

\* present_cols and the arguments the pipeline gives the outlier handler:
\* the default threshold and the default action.
outlier_args(t, a) ==
    [columns   |-> SelectSeq(numeric_to_check, LAMBDA c : c \in t.cols),
     method    |-> a.outlier_method,
     threshold |-> DefaultThreshold,
     action    |-> "cap"]

encode_args(a) ==
    [cols_onehot |-> a.onehot_cols, cols_label |-> a.label_cols, drop_first |-> TRUE]

\* Outlier handling whatever handle_outliers says.
after_clean_always_outliers(a) == "outliers"

\* The stage that follows clean_data: if handle_outliers.
after_clean(a) == IF a.handle_outliers THEN "outliers" ELSE "enrich"

\* The stage that follows feature_engineering: if encode_categoricals.
after_enrich(a) == IF a.encode_categoricals THEN "encode" ELSE "return"

\* The files: no file at the path (<<>>), or <<table>> with a float, an
\* integer and a categorical column.
FileCols == {"Review Rating", "Previous Purchases", "Gender"}

FileRows ==
    {f \in [FileCols -> {NA, Num(1), Num(10), <<1>>}] :
        /\ f["Review Rating"] \in {NA, Num(1)}
        /\ f["Previous Purchases"] \in {NA, Num(10)}
        /\ f["Gender"] \in {NA, <<1>>}}

PipelineOptions ==
    [handle_outliers     : BOOLEAN,
     outlier_method      : {"iqr"},
     encode_categoricals : BOOLEAN,
     onehot_cols         : {<<>>, <<"Gender">>, <<"Size">>},
     label_cols          : {<<>>, <<"Gender">>}]

InitPipeline ==
    /\ pc = "load"
    /\ \/ df = <<>>
       \/ \E n \in 0..MaxRowsFile : \E cells \in [1..n -> FileRows] :
             df = <<[cols |-> FileCols, rows |-> MkRows(cells)]>>
    /\ df_out = <<>>
    /\ args \in PipelineOptions
    /\ raised = "none"
    /\ hist = <<>>

\* A stage that ran: what it was given, and what it returned (<<>> when it
\* raised).
Ran(stage, given, returned) == [stage |-> stage, given |-> given, returned |-> returned]

\* df = load_data(file_path)
PipelineLoad ==
    /\ pc = "load"
    /\ IF load_data_raises(df) # "none"
       THEN /\ pc' = "raised"
            /\ raised' = load_data_raises(df)
            /\ hist' = Append(hist, Ran("load", df, <<>>))
            /\ UNCHANGED df_out
       ELSE /\ pc' = "clean"
            /\ df_out' = load_data(df)
            /\ hist' = Append(hist, Ran("load", df, <<load_data(df)>>))
            /\ UNCHANGED raised
    /\ UNCHANGED <<df, args>>

\* df = clean_data(df)
PipelineClean ==
    /\ pc = "clean"
    /\ IF clean_data_raises(df_out)
       THEN /\ pc' = "raised"
            /\ raised' = "KeyError"
            /\ hist' = Append(hist, Ran("clean", <<df_out>>, <<>>))
            /\ UNCHANGED df_out
       ELSE /\ pc' = after_clean(args)
            /\ df_out' = clean_data(df_out)
            /\ hist' = Append(hist, Ran("clean", <<df_out>>, <<clean_data(df_out)>>))
            /\ UNCHANGED raised
    /\ UNCHANGED <<df, args>>

\* df = detect_and_handle_outliers(df, present_cols, method=outlier_method)
PipelineOutliers ==
    /\ pc = "outliers"
    /\ LET r == detect_and_handle_outliers(df_out, outlier_args(df_out, args))
       IN  IF r.raises
           THEN /\ pc' = "raised"
                /\ raised' = "IndexingError"
                /\ hist' = Append(hist, Ran("outliers", <<df_out>>, <<>>))
                /\ UNCHANGED df_out
           ELSE /\ pc' = "enrich"
                /\ df_out' = r.df
                /\ hist' = Append(hist, Ran("outliers", <<df_out>>, <<r.df>>))
                /\ UNCHANGED raised
    /\ UNCHANGED <<df, args>>

\* df = feature_engineering(df)
PipelineEnrich ==
    /\ pc = "enrich"
    /\ pc' = after_enrich(args)
    /\ df_out' = feature_engineering(df_out)
    /\ hist' = Append(hist, Ran("enrich", <<df_out>>, <<feature_engineering(df_out)>>))
    /\ UNCHANGED <<df, args, raised>>

\* df, _ = encode_categorical(df, cols_onehot=onehot_cols, cols_label=label_cols)
PipelineEncode ==
    /\ pc = "encode"
    /\ IF encode_categorical_raises(df_out, encode_args(args))
       THEN /\ pc' = "raised"
            /\ raised' = "KeyError"
            /\ hist' = Append(hist, Ran("encode", <<df_out>>, <<>>))
            /\ UNCHANGED df_out
       ELSE /\ pc' = "return"
            /\ df_out' = encode_categorical(df_out, encode_args(args))
            /\ hist' = Append(hist, Ran("encode", <<df_out>>,
                                        <<encode_categorical(df_out, encode_args(args))>>))
            /\ UNCHANGED raised
    /\ UNCHANGED <<df, args>>

\* return df
PipelineReturn ==
    /\ pc = "return"
    /\ pc' = "returned"
    /\ hist' = Append(hist, Ran("return", <<df_out>>, <<df_out>>))
    /\ UNCHANGED <<df, df_out, args, raised>>

NextPipeline ==
    \/ PipelineLoad
    \/ PipelineClean
    \/ PipelineOutliers
    \/ PipelineEnrich
    \/ PipelineEncode
    \/ PipelineReturn

SpecPipeline == InitPipeline /\ [][NextPipeline]_vars

\* The stages of a complete run, in order.
StageOrder ==
    <<"load", "clean">>
        \o (IF args.handle_outliers THEN <<"outliers">> ELSE <<>>)
        \o <<"enrich">>
        \o (IF args.encode_categoricals THEN <<"encode">> ELSE <<>>)
        \o <<"return">>

\* C10: the stages run in the order load, clean, outliers (if enabled),
\* enrich, encode (if enabled), none twice; each stage is given the table
\* the one before it returned; after a stage raised nothing more runs and no
\* table is returned; a table is returned only when every enabled stage has
\* completed.
C10_StagesInOrderAbortOnError ==
    /\ Len(hist) <= Len(StageOrder)
    /\ \A i \in DOMAIN hist :
          /\ hist[i].stage = StageOrder[i]
          /\ i > 1 => hist[i - 1].returned # <<>> /\ hist[i].given = hist[i - 1].returned
          /\ i = 1 => hist[i].given = df
    /\ (pc = "raised") <=> (hist # <<>> /\ hist[Len(hist)].returned = <<>>)
    /\ (pc = "raised") <=> (raised # "none")
    /\ (pc = "returned") <=>
          (Len(hist) = Len(StageOrder) /\ hist[Len(hist)].returned = <<df_out>>)
    /\ pc = "returned" => \A i \in DOMAIN hist : hist[i].returned # <<>>

\* C10's case: a run with both optional stages enabled in which load, clean,
\* outliers and enrich completed on a table with rows and encode raised.
C10_Witness ==
    /\ args.handle_outliers
    /\ args.encode_categoricals
    /\ pc = "raised"
    /\ Len(hist) = 5
    /\ hist[5].stage = "encode"
    /\ df_out.rows # <<>>

\* A complete run with both optional stages, returning a table with rows.
C10_CompleteRun ==
    /\ args.handle_outliers
    /\ args.encode_categoricals
    /\ pc = "returned"
    /\ Len(hist) = 6
    /\ df_out.rows # <<>>
====
